---- MODULE Spec2Model ----
(***************************************************************************)
(* AR polygon area calculator (src/src/App.jsx): the hit-test reticle, the *)
(* point list with its markers and outline, and the shoelace area.         *)
(***************************************************************************)
EXTENDS Integers, Sequences, FiniteSets, TLC

(***************************************************************************)
(* Bounds of the model.                                                    *)
(***************************************************************************)
\* longest point list the model builds; at a full list only reset and cleanup
\* are followed
MaxPoints == 4
\* longest hit-test result list a frame delivers
MaxHits == 2
\* longest polygon handed to calculatePolygonArea in SpecArea
MaxLen == 4
\* longest polygon handed to calculatePolygonArea in SpecLift
MaxLift == 3

\* null: of lineMesh (no vertices)
NullLine == <<>>
\* areaDisplayEl.textContent = ''
NoText == <<>>
\* SpecArea: calculatePolygonArea has not returned yet
NoResult == <<>>

(***************************************************************************)
(* JavaScript numbers.  Every coordinate of the model is an integer that a *)
(* Float32 holds exactly (the pose matrix is a Float32Array), so a product *)
(* of two coordinates is exact; a sum is rounded to 53 significant bits,   *)
(* to nearest, ties to even.  A number is sign, magnitude hi * Base + lo,  *)
(* and a binary exponent: (-1)^neg * (hi * Base + lo) * 2^exp.             *)
(***************************************************************************)
MantissaBits == 53
Base == 2 ^ 27
HalfBase == 2 ^ 14

DZero == [neg |-> FALSE, hi |-> 0, lo |-> 0, exp |-> 0]

IAbs(a) == IF a < 0 THEN -a ELSE a

\* how many low bits a magnitude with this high limb loses to the mantissa
DShift(hi) ==
  IF hi < 2 ^ (MantissaBits - 27) THEN 0
  ELSE IF hi < 2 ^ (MantissaBits - 26) THEN 1
  ELSE IF hi < 2 ^ (MantissaBits - 25) THEN 2
  ELSE IF hi < 2 ^ (MantissaBits - 24) THEN 3
  ELSE IF hi < 2 ^ (MantissaBits - 23) THEN 4
  ELSE 5

\* round to nearest, ties to even, at MantissaBits significant bits
DRound(d) ==
  IF d.hi < 2 ^ (MantissaBits - 27)
  THEN [d EXCEPT !.neg = d.neg /\ (d.hi # 0 \/ d.lo # 0)]
  ELSE LET s    == DShift(d.hi)
           unit == 2 ^ s
           q    == d.lo \div unit
           r    == d.lo % unit
           up   == IF 2 * r > unit \/ (2 * r = unit /\ q % 2 = 1) THEN 1 ELSE 0
           lo2  == (q + up) * unit
       IN  IF lo2 = Base
           THEN [neg |-> d.neg, hi |-> d.hi + 1, lo |-> 0, exp |-> d.exp]
           ELSE [neg |-> d.neg, hi |-> d.hi, lo |-> lo2, exp |-> d.exp]

\* a * b of two coordinates: exact, the magnitude split into limbs
DMul(a, b) ==
  LET ma == IAbs(a)
      mb == IAbs(b)
      a1 == ma \div HalfBase
      a0 == ma % HalfBase
      b1 == mb \div HalfBase
      b0 == mb % HalfBase
      p2 == a1 * b1
      p1 == a1 * b0 + a0 * b1
      p0 == a0 * b0
      lo == (p1 % (2 ^ 13)) * HalfBase + p0
  IN  IF ma < HalfBase /\ mb < HalfBase
      THEN [neg |-> (a < 0) # (b < 0) /\ p0 # 0, hi |-> p0 \div Base, lo |-> p0 % Base,
            exp |-> 0]
      ELSE DRound([neg |-> (a < 0) # (b < 0),
                   hi  |-> 2 * p2 + p1 \div (2 ^ 13) + lo \div Base,
                   lo  |-> lo % Base,
                   exp |-> 0])

DNeg(d) == [d EXCEPT !.neg = ~d.neg /\ (d.hi # 0 \/ d.lo # 0)]

DLess(a, b) == a.hi < b.hi \/ (a.hi = b.hi /\ a.lo < b.lo)

\* the exact sum of a and b
DSum(a, b) ==
  IF a.neg = b.neg
  THEN LET lo == a.lo + b.lo
       IN  [neg |-> a.neg, hi |-> a.hi + b.hi + lo \div Base, lo |-> lo % Base,
            exp |-> a.exp]
  ELSE LET big    == IF DLess(a, b) THEN b ELSE a
           small  == IF DLess(a, b) THEN a ELSE b
           borrow == IF big.lo < small.lo THEN 1 ELSE 0
       IN  [neg |-> big.neg,
            hi  |-> big.hi - small.hi - borrow,
            lo  |-> big.lo + borrow * Base - small.lo,
            exp |-> a.exp]

\* a + b
DAdd(a, b) == DRound(DSum(a, b))

\* a - b
DSub(a, b) == DAdd(a, DNeg(b))

\* a / 2: exact in binary floating point
DHalf(d) == [d EXCEPT !.exp = d.exp - 1]

\* (a variant that keeps the sign)
DAbsKeepSign(d) == d

\* Math.abs
DAbs(d) == [d EXCEPT !.neg = FALSE]

(***************************************************************************)
(* calculatePolygonArea: the shoelace sum over x and z, accumulated in the *)
(* order of the loop.                                                      *)
(***************************************************************************)
\* (a variant whose loop stops before the edge that closes the polygon)
RECURSIVE AreaLoopOpen(_, _, _)
AreaLoopOpen(polygonPoints, i, area) ==
  LET n == Len(polygonPoints)
  IN  IF i + 1 >= n THEN area
      ELSE LET pi == polygonPoints[i + 1]
               pj == polygonPoints[i + 2]
               a1 == DAdd(area, DMul(pi.x, pj.z))
               a2 == DSub(a1, DMul(pj.x, pi.z))
           IN  AreaLoopOpen(polygonPoints, i + 1, a2)

\* (a variant that reads the up axis y where the loop reads z)
RECURSIVE AreaLoopXY(_, _, _)
AreaLoopXY(polygonPoints, i, area) ==
  LET n == Len(polygonPoints)
  IN  IF i >= n THEN area
      ELSE LET j  == (i + 1) % n
               pi == polygonPoints[i + 1]
               pj == polygonPoints[j + 1]
               a1 == DAdd(area, DMul(pi.x, pj.y))
               a2 == DSub(a1, DMul(pj.x, pi.y))
           IN  AreaLoopXY(polygonPoints, i + 1, a2)

RECURSIVE AreaLoop(_, _, _)
AreaLoop(polygonPoints, i, area) ==
  LET n == Len(polygonPoints)
  IN  IF i >= n THEN area
      ELSE LET j  == (i + 1) % n
               pi == polygonPoints[i + 1]
               pj == polygonPoints[j + 1]
               a1 == DAdd(area, DMul(pi.x, pj.z))
               a2 == DSub(a1, DMul(pj.x, pi.z))
           IN  AreaLoop(polygonPoints, i + 1, a2)

\* (a variant that returns area / 2 without Math.abs)
calculatePolygonAreaSigned(polygonPoints) ==
  DHalf(AreaLoop(polygonPoints, 0, DZero))

calculatePolygonArea(polygonPoints) ==
  DAbs(DHalf(AreaLoop(polygonPoints, 0, DZero)))


\* Number.prototype.toFixed(3): the nearest multiple of 1/1000 (the larger of
\* two equally near), as a count of thousandths
AreaUnit == 1000

toFixed3(d) ==
  LET num == (d.hi * Base + d.lo) * AreaUnit
      den == 2 ^ (0 - d.exp)
      n   == (2 * num + den) \div (2 * den)
  IN  IF d.neg THEN 0 - n ELSE n

\* Float32Array storage of a coordinate (BufferGeometry.setFromPoints):
\* 24 significant bits, to nearest, ties to even
Fround(c) ==
  IF IAbs(c) < 2 ^ 24 THEN c ELSE
  LET m    == IAbs(c)
      s    == IF m < 2 ^ 24 THEN 0 ELSE IF m < 2 ^ 25 THEN 1 ELSE IF m < 2 ^ 26 THEN 2
              ELSE IF m < 2 ^ 27 THEN 3 ELSE 4
      unit == 2 ^ s
      q    == m \div unit
      r    == m % unit
      up   == IF 2 * r > unit \/ (2 * r = unit /\ q % 2 = 1) THEN 1 ELSE 0
      v    == (q + up) * unit
  IN  IF c < 0 THEN 0 - v ELSE v

(***************************************************************************)
(* Poses.  A pose matrix is its translation (x, y, z) and its rotation     *)
(* part rot.  The platform delivers hit poses from HitPoses.               *)
(***************************************************************************)
Pose(x, y, z, rot) == [x |-> x, y |-> y, z |-> z, rot |-> rot]

\* new THREE.Mesh(): matrix is the identity
IdentityMatrix == Pose(0, 0, 0, 0)

PoseOrder ==
  << Pose(0, 0, 0, 0), Pose(2, 0, 0, 1), Pose(2, 0, 2, 0),
     Pose(0, 0, 2, 1), Pose(4, 0, 0, 0), Pose(0, 0, 3, 1) >>

HitPoses == {PoseOrder[i] : i \in 1..Len(PoseOrder)}

\* the ranked result lists a frame can deliver: none, any one pose, or the
\* last 2..MaxHits poses of PoseOrder, the last one ranked first
HitLists ==
  {<<>>} \cup { <<p>> : p \in HitPoses } \cup
  { [i \in 1..k |-> PoseOrder[Len(PoseOrder) + 1 - i]] : k \in 2..MaxHits }

\* Vector3.setFromMatrixPosition: the translation of the matrix
setFromMatrixPosition(m) == [x |-> m.x, y |-> m.y, z |-> m.z]

(***************************************************************************)
(* State.                                                                  *)
(***************************************************************************)
VARIABLES
  points,                 \* const points = []
  markers,                \* scene children named "measurement_marker": their matrices
  lineMesh,               \* let lineMesh: NullLine or the vertices of its geometry
  sceneLines,             \* scene children that are THREE.Line: their vertices
  pointsCountText,        \* pointsCountEl.textContent
  areaDisplayText,        \* areaDisplayEl.textContent
  reticleVisible,         \* reticle.visible
  reticleMatrix,          \* reticle.matrix
  hitTestSource,          \* "null", or the source of the "current" or of an "ended" session
  hitTestSourceRequested,
  session,                \* renderer.xr.getSession(): is a session running
  pending,                \* is the running session's hit-test source request unresolved
  pendingEnded,           \* is a hit-test source request of an ended session unresolved
  endListeners,           \* 'end' listeners registered on the running session, each
                          \* registered together with one hit-test source request
  mounted,                \* the effect is set up and its cleanup has not run
  lastEvent,              \* history: the handler that ran last and what it read
  placedSinceReset,       \* history: placePoint calls with a target since the last reset
  polygonPoints,          \* SpecArea: the argument of calculatePolygonArea
  areaResult              \* SpecArea: <<its result>>, NoResult before the call

engineVars == <<points, markers, lineMesh, sceneLines, pointsCountText, areaDisplayText>>
trackerVars == <<reticleVisible, reticleMatrix, hitTestSource, hitTestSourceRequested,
                 session, pending, pendingEnded, endListeners>>
areaVars == <<polygonPoints, areaResult>>
vars == <<engineVars, trackerVars, mounted, lastEvent, placedSinceReset, areaVars>>

\* a history record: the handler, whether it got an XR frame, whether it read
\* the frame's hit-test results, and the results it read
Event(op) == [op |-> op, frame |-> FALSE, read |-> FALSE, hits |-> <<>>]
FrameEvent(read, hits) == [op |-> "render", frame |-> TRUE, read |-> read, hits |-> hits]

InitApp ==
  /\ points = <<>>
  /\ markers = <<>>
  /\ lineMesh = NullLine
  /\ sceneLines = <<>>
  /\ pointsCountText = 0
  /\ areaDisplayText = NoText
  /\ reticleVisible = FALSE
  /\ reticleMatrix = IdentityMatrix
  /\ hitTestSource = "null"
  /\ hitTestSourceRequested = FALSE
  /\ session = FALSE
  /\ pending = FALSE
  /\ pendingEnded = FALSE
  /\ endListeners = 0
  /\ mounted = TRUE
  /\ lastEvent = Event("init")
  /\ placedSinceReset = 0

Init ==
  /\ InitApp
  /\ polygonPoints = <<>>
  /\ areaResult = NoResult


(***************************************************************************)
(* The measurement engine.                                                 *)
(***************************************************************************)
\* new THREE.BufferGeometry().setFromPoints(pts): the vertices, as Float32
setFromPoints(pts) ==
  [i \in 1..Len(pts) |-> [x |-> Fround(pts[i].x), y |-> Fround(pts[i].y), z |-> Fround(pts[i].z)]]

\* (a variant that leaves the line in the scene)
RemoveLineKept(lines, obj) == lines

\* scene.remove(obj) on the lines of the scene: the first child that is obj
RECURSIVE RemoveLine(_, _)
RemoveLine(lines, obj) ==
  IF lines = <<>> THEN <<>>
  ELSE IF Head(lines) = obj THEN Tail(lines)
  ELSE <<Head(lines)>> \o RemoveLine(Tail(lines), obj)

\* `Polygon Area: ${area.toFixed(3)} m2`
AreaText(area) == <<"Polygon Area: ", toFixed3(area), " m2">>

\* (a variant that does not close the loop)
pointsToDrawOpen(pts) == pts

\* the closed vertex list drawn for pts: [...points, points[0]]
pointsToDraw(pts) == Append(pts, pts[1])

\* updateMeasurementVisuals(), from the point list pts, the variable lineMesh (lm)
\* and the lines of the scene: the texts, lineMesh and the lines it leaves
updateMeasurementVisuals(pts, lm, lines) ==
  LET removed == IF lm # NullLine THEN RemoveLine(lines, lm) ELSE lines
      drawn   == setFromPoints(pointsToDraw(pts))
  IN  IF Len(pts) < 2
      THEN [count |-> Len(pts), area |-> NoText, lineMesh |-> NullLine, lines |-> removed]
      ELSE [count    |-> Len(pts),
            area     |-> IF Len(pts) >= 3 THEN AreaText(calculatePolygonArea(pts)) ELSE NoText,
            lineMesh |-> drawn,
            lines    |-> Append(removed, drawn)]

\* (a variant that overwrites the newest point once there is one)
PushPointOverwrite(pts, newPointPos) ==
  IF pts = <<>> THEN <<newPointPos>> ELSE [pts EXCEPT ![Len(pts)] = newPointPos]

\* (a variant that pushes newPointPos itself, one vector shared by every entry)
PushPointShared(pts, newPointPos) == [i \in 1..(Len(pts) + 1) |-> newPointPos]

\* points.push(newPointPos.clone())
PushPoint(pts, newPointPos) == Append(pts, newPointPos)

\* (a variant whose marker keeps the matrix it was constructed with)
AddMarkerIdentity(ms, hitMatrix) == Append(ms, IdentityMatrix)

\* marker.matrix.copy(hitMatrix); scene.add(marker)
AddMarker(ms, hitMatrix) == Append(ms, hitMatrix)

\* (a variant that places without looking at the reticle)
TargetAlways == TRUE

\* if (reticle.visible)
TargetAvailable == reticleVisible

\* placePoint()
placePoint ==
  IF TargetAvailable
  THEN LET hitMatrix   == reticleMatrix
           newPointPos == setFromMatrixPosition(hitMatrix)
           pts         == PushPoint(points, newPointPos)
           v           == updateMeasurementVisuals(pts, lineMesh, sceneLines)
       IN  /\ points' = pts
           /\ markers' = AddMarker(markers, hitMatrix)
           /\ pointsCountText' = v.count
           /\ areaDisplayText' = v.area
           /\ lineMesh' = v.lineMesh
           /\ sceneLines' = v.lines
  ELSE UNCHANGED engineVars

\* (a variant that removes only the newest point)
ClearedPointsPop(pts) == IF pts = <<>> THEN <<>> ELSE SubSeq(pts, 1, Len(pts) - 1)

\* (a variant that forgets to empty the list)
ClearedPointsKept(pts) == pts

\* the point list resetScene() leaves: points.length = 0
ClearedPoints(pts) == <<>>

\* resetScene()
resetScene ==
  LET pts   == ClearedPoints(points)
      lines == IF lineMesh # NullLine THEN RemoveLine(sceneLines, lineMesh) ELSE sceneLines
      v     == updateMeasurementVisuals(pts, NullLine, lines)
  IN  /\ points' = pts
      /\ markers' = <<>>
      /\ pointsCountText' = v.count
      /\ areaDisplayText' = v.area
      /\ lineMesh' = v.lineMesh
      /\ sceneLines' = v.lines

\* (a variant whose cleanup leaves the click listeners on the buttons)
ListenersKept == TRUE

\* are placePoint and resetScene the click listeners of the buttons: from
\* init() until the cleanup removes them
ListenersAttached == mounted

\* the bound of the model: the point list is not full; at a full list the
\* model follows only reset and cleanup
WithinBounds == Len(points) < MaxPoints

\* a click on the place-point button: placePoint is its listener while mounted
PlacePointClick ==
  /\ WithinBounds
  /\ IF ListenersAttached
     THEN /\ placePoint
          /\ lastEvent' = Event("placePoint")
          /\ placedSinceReset' = IF reticleVisible THEN placedSinceReset + 1
                                  ELSE placedSinceReset
     ELSE /\ UNCHANGED <<engineVars, placedSinceReset>>
          /\ lastEvent' = Event("click")
  /\ UNCHANGED <<trackerVars, mounted, areaVars>>

\* a click on the reset button: resetScene is its listener while mounted
ResetClick ==
  /\ IF ListenersAttached
     THEN /\ resetScene
          /\ lastEvent' = Event("reset")
          /\ placedSinceReset' = 0
     ELSE /\ UNCHANGED <<engineVars, placedSinceReset>>
          /\ lastEvent' = Event("click")
  /\ UNCHANGED <<trackerVars, mounted, areaVars>>

\* the cleanup of the effect: the loop and the listeners go, then resetScene()
Cleanup ==
  /\ mounted
  /\ mounted' = FALSE
  /\ resetScene
  /\ placedSinceReset' = 0
  /\ lastEvent' = Event("cleanup")
  /\ UNCHANGED <<trackerVars, areaVars>>


(***************************************************************************)
(* The hit-test reticle: render and the session.                           *)
(***************************************************************************)
\* const hit = hitTestResults[0]
TopHit(hitTestResults) == hitTestResults[1]

\* reticle.visible after the frame read hitTestResults
VisibleAfter(hitTestResults) == Len(hitTestResults) # 0

\* reticle.matrix after the frame read hitTestResults
MatrixAfter(matrix, hitTestResults) ==
  IF Len(hitTestResults) # 0 THEN TopHit(hitTestResults) ELSE matrix

\* (a variant that does not look at hitTestSourceRequested)
RequestHitTestSourceEveryFrame ==
  /\ pending' = TRUE
  /\ endListeners' = endListeners + 1
  /\ hitTestSourceRequested' = TRUE

\* the first block of render: request the hit-test source once per session
RequestHitTestSource ==
  IF ~hitTestSourceRequested
  THEN /\ pending' = TRUE
       /\ endListeners' = endListeners + 1
       /\ hitTestSourceRequested' = TRUE
  ELSE UNCHANGED <<pending, endListeners, hitTestSourceRequested>>

\* render(timestamp, frame) with a frame of the running session, whose
\* hit-test source the variable hitTestSource holds
RenderHit(hitTestResults) ==
  /\ WithinBounds
  /\ mounted
  /\ session
  /\ hitTestSource = "current"
  /\ RequestHitTestSource
  /\ reticleVisible' = VisibleAfter(hitTestResults)
  /\ reticleMatrix' = MatrixAfter(reticleMatrix, hitTestResults)
  /\ lastEvent' = FrameEvent(TRUE, hitTestResults)
  /\ UNCHANGED <<engineVars, hitTestSource, session, pendingEnded, mounted,
                 placedSinceReset, areaVars>>

\* render with a frame while hitTestSource is null: the reticle is left alone
RenderNoSource ==
  /\ WithinBounds
  /\ mounted
  /\ session
  /\ hitTestSource = "null"
  /\ RequestHitTestSource
  /\ lastEvent' = FrameEvent(FALSE, <<>>)
  /\ UNCHANGED <<engineVars, reticleVisible, reticleMatrix, hitTestSource, session,
                 pendingEnded, mounted, placedSinceReset, areaVars>>

\* render with a frame while hitTestSource is the source of an ended session:
\* frame.getHitTestResults throws (the reticle is left alone) or finds nothing
RenderEndedSource(throws) ==
  /\ WithinBounds
  /\ mounted
  /\ session
  /\ hitTestSource = "ended"
  /\ RequestHitTestSource
  /\ IF throws
     THEN /\ UNCHANGED <<reticleVisible, reticleMatrix>>
          /\ lastEvent' = FrameEvent(FALSE, <<>>)
     ELSE /\ reticleVisible' = VisibleAfter(<<>>)
          /\ reticleMatrix' = MatrixAfter(reticleMatrix, <<>>)
          /\ lastEvent' = FrameEvent(TRUE, <<>>)
  /\ UNCHANGED <<engineVars, hitTestSource, session, pendingEnded, mounted,
                 placedSinceReset, areaVars>>

\* render outside a session: frame is undefined
RenderNoFrame ==
  /\ WithinBounds
  /\ mounted
  /\ ~session
  /\ lastEvent' = Event("render")
  /\ UNCHANGED <<engineVars, trackerVars, mounted, placedSinceReset, areaVars>>

\* the AR button starts a session: a new session object, without listeners
SessionStart ==
  /\ WithinBounds
  /\ mounted
  /\ ~session
  /\ session' = TRUE
  /\ endListeners' = 0
  /\ lastEvent' = Event("sessionStart")
  /\ UNCHANGED <<engineVars, reticleVisible, reticleMatrix, hitTestSource,
                 hitTestSourceRequested, pending, pendingEnded, mounted,
                 placedSinceReset, areaVars>>

\* reticle.visible after the 'end' listener: the listener does not touch it
EndListenerVisible(visible) == visible

\* the session ends: its 'end' listeners run; its source and its unresolved
\* request are now those of an ended session
SessionEnd ==
  /\ WithinBounds
  /\ session
  /\ session' = FALSE
  /\ IF endListeners > 0
     THEN /\ hitTestSourceRequested' = FALSE
          /\ hitTestSource' = "null"
          /\ reticleVisible' = EndListenerVisible(reticleVisible)
     ELSE /\ hitTestSource' = IF hitTestSource = "current" THEN "ended" ELSE hitTestSource
          /\ UNCHANGED <<hitTestSourceRequested, reticleVisible>>
  /\ endListeners' = 0
  /\ pending' = FALSE
  /\ pendingEnded' = (pendingEnded \/ pending)
  /\ lastEvent' = Event("sessionEnd")
  /\ UNCHANGED <<engineVars, reticleMatrix, mounted, placedSinceReset, areaVars>>

\* session.requestHitTestSource(...).then((source) => { hitTestSource = source }),
\* for the request of the running session.  (A request that is rejected runs no
\* callback: it is a request that never resolves.)
HitTestSourceResolved ==
  /\ WithinBounds
  /\ pending
  /\ pending' = FALSE
  /\ hitTestSource' = "current"
  /\ lastEvent' = Event("resolved")
  /\ UNCHANGED <<engineVars, reticleVisible, reticleMatrix, hitTestSourceRequested,
                 session, pendingEnded, endListeners, mounted, placedSinceReset, areaVars>>

\* the same callback for a request of an ended session; more such requests
\* may or may not remain
EndedSourceResolved(more) ==
  /\ WithinBounds
  /\ pendingEnded
  /\ pendingEnded' = more
  /\ hitTestSource' = "ended"
  /\ lastEvent' = Event("resolved")
  /\ UNCHANGED <<engineVars, reticleVisible, reticleMatrix, hitTestSourceRequested,
                 session, pending, endListeners, mounted, placedSinceReset, areaVars>>

Next ==
  \/ PlacePointClick
  \/ ResetClick
  \/ Cleanup
  \/ \E hitTestResults \in HitLists : RenderHit(hitTestResults)
  \/ RenderNoSource
  \/ \E throws \in BOOLEAN : RenderEndedSource(throws)
  \/ RenderNoFrame
  \/ SessionStart
  \/ SessionEnd
  \/ HitTestSourceResolved
  \/ \E more \in BOOLEAN : EndedSourceResolved(more)

Spec == Init /\ [][Next]_vars


(***************************************************************************)
(* calculatePolygonArea on its own: the argument is any list of 3..MaxLen  *)
(* points of AreaPoints; it is called, then called again on the list       *)
(* reversed or shifted by one.                                             *)
(***************************************************************************)
\* 2^27: with 0 and 1, the coordinates whose products need more than 53 bits
BigCoord == Base

AreaCoords == {0, 1, BigCoord}

AreaPoints == {[x |-> x, y |-> 0, z |-> z] : x \in AreaCoords, z \in AreaCoords}

AreaInputs == UNION {[1..n -> AreaPoints] : n \in 3..MaxLen}

Reverse(pts) == [i \in 1..Len(pts) |-> pts[Len(pts) + 1 - i]]

ShiftByOne(pts) == Append(Tail(pts), Head(pts))

InitArea ==
  /\ InitApp
  /\ polygonPoints \in AreaInputs
  /\ areaResult = NoResult

AreaCall ==
  /\ areaResult = NoResult
  /\ areaResult' = <<calculatePolygonArea(polygonPoints)>>
  /\ lastEvent' = Event("area")
  /\ UNCHANGED <<engineVars, trackerVars, mounted, placedSinceReset, polygonPoints>>

AreaOfReversed ==
  /\ areaResult # NoResult
  /\ polygonPoints' = Reverse(polygonPoints)
  /\ areaResult' = <<calculatePolygonArea(polygonPoints')>>
  /\ lastEvent' = Event("areaOfReversed")
  /\ UNCHANGED <<engineVars, trackerVars, mounted, placedSinceReset>>

AreaOfShifted ==
  /\ areaResult # NoResult
  /\ polygonPoints' = ShiftByOne(polygonPoints)
  /\ areaResult' = <<calculatePolygonArea(polygonPoints')>>
  /\ lastEvent' = Event("areaOfShifted")
  /\ UNCHANGED <<engineVars, trackerVars, mounted, placedSinceReset>>

NextArea == AreaCall \/ AreaOfReversed \/ AreaOfShifted

SpecArea == InitArea /\ [][NextArea]_vars


(***************************************************************************)
(* calculatePolygonArea and the up axis: the argument is any list of       *)
(* 3..MaxLift points of AreaPoints; it is called, then called again each   *)
(* time one point is moved along y.                                        *)
(***************************************************************************)
\* the heights a point is moved to
LiftCoords == {0, BigCoord}

LiftInputs == UNION {[1..n -> AreaPoints] : n \in 3..MaxLift}

InitLift ==
  /\ InitApp
  /\ polygonPoints \in LiftInputs
  /\ areaResult = NoResult

AreaOfLifted(i, y) ==
  /\ areaResult # NoResult
  /\ i \in 1..Len(polygonPoints)
  /\ y # polygonPoints[i].y
  /\ polygonPoints' = [polygonPoints EXCEPT ![i].y = y]
  /\ areaResult' = <<calculatePolygonArea(polygonPoints')>>
  /\ lastEvent' = Event("areaOfLifted")
  /\ UNCHANGED <<engineVars, trackerVars, mounted, placedSinceReset>>

NextLift ==
  \/ AreaCall
  \/ \E i \in 1..MaxLift, y \in LiftCoords : AreaOfLifted(i, y)

SpecLift == InitLift /\ [][NextLift]_vars


(***************************************************************************)
(* Properties.                                                             *)
(***************************************************************************)
\* the position of every committed point equals the translation of its marker
Position(m) == [x |-> m.x, y |-> m.y, z |-> m.z]

\* C1: a placePoint call made while the reticle is not visible changes nothing:
\* the point list, the markers, the outline, the count and area texts and the
\* reticle and session state are what they were before the call.
C1_NoTargetIsNoOp ==
  [][(lastEvent'.op = "placePoint" /\ ~reticleVisible)
       => UNCHANGED <<engineVars, trackerVars, mounted>>]_vars

\* C1 witness: placePoint has just run without a target on a measurable polygon.
C1_Witness ==
  /\ lastEvent.op = "placePoint"
  /\ ~reticleVisible
  /\ Len(points) >= 3
  /\ areaDisplayText # NoText

\* C2: the length of the point list, and the count shown, equal the number of
\* placePoint calls made with a visible reticle since the last reset.
C2_CountIsPlacedSinceReset ==
  /\ Len(points) = placedSinceReset
  /\ pointsCountText = placedSinceReset

\* C2 witness: three points placed, the last call a placePoint.
C2_Witness ==
  /\ lastEvent.op = "placePoint"
  /\ placedSinceReset = 3
  /\ Len(points) = 3

\* C3: right after reset the point list is empty, the count shown is 0, there is
\* no outline (lineMesh is null and no line is in the scene) and no area text.
C3_ResetYieldsEmpty ==
  lastEvent.op = "reset" =>
    /\ points = <<>>
    /\ pointsCountText = 0
    /\ lineMesh = NullLine
    /\ sceneLines = <<>>
    /\ areaDisplayText = NoText

\* C3 witness: reset has just run while a target is available.
C3_Witness ==
  /\ lastEvent.op = "reset"
  /\ reticleVisible
  /\ points = <<>>
  /\ markers = <<>>


\* C4: after the session-ended notification the target is none, it stays none
\* until a frame reads a non-empty hit-test result list, and meanwhile
\* placePoint appends no point.
C4_TargetClearedAtSessionEnd ==
  [][LET hit == lastEvent'.op = "render" /\ lastEvent'.hits # <<>>
     IN  /\ lastEvent'.op = "sessionEnd" => ~reticleVisible'
         /\ (~reticleVisible /\ ~hit) => ~reticleVisible'
         /\ (~reticleVisible /\ lastEvent'.op = "placePoint") => points' = points]_vars

\* C5: no outline below 2 points; from 2 points on the outline has one vertex
\* more than there are points, starts with the points in placement order and
\* ends with its first vertex.
C5_OutlineClosesPointList ==
  /\ Len(points) < 2 => lineMesh = NullLine
  /\ Len(points) >= 2 =>
       /\ Len(lineMesh) = Len(points) + 1
       /\ \A i \in 1..Len(points) : lineMesh[i] = points[i]
       /\ lineMesh[Len(points) + 1] = lineMesh[1]

\* C5 witness: three points, whose outline has four vertices.
C5_Witness ==
  /\ Len(points) = 3
  /\ Len(lineMesh) = 4
  /\ lineMesh[1] # lineMesh[2]

\* C6: no area text below 3 points (not a zero, not an error); from 3 points on
\* the area text is there and its value is not negative.
C6_AreaAbsentOrNonNegative ==
  /\ Len(points) < 3 => areaDisplayText = NoText
  /\ Len(points) >= 3 => (areaDisplayText # NoText /\ areaDisplayText[2] >= 0)

\* C6 witness: a polygon whose shoelace sum is negative, shown with a positive area.
C6_Witness ==
  /\ Len(points) >= 3
  /\ AreaLoop(points, 0, DZero).neg
  /\ areaDisplayText # NoText
  /\ areaDisplayText[2] > 0

\* the shoelace sum of the spec, in integers: the sum over i of
\* p[i].x * p[i+1].z - p[i+1].x * p[i].z, cyclically
RECURSIVE ShoelaceSum(_, _)
ShoelaceSum(pts, i) ==
  IF i > Len(pts) THEN 0
  ELSE LET j == (i % Len(pts)) + 1
       IN  pts[i].x * pts[j].z - pts[j].x * pts[i].z + ShoelaceSum(pts, i + 1)

Point3(x, y, z) == [x |-> x, y |-> y, z |-> z]
ScenarioA == <<Point3(0, 0, 0), Point3(2, 0, 0), Point3(2, 0, 2), Point3(0, 0, 2)>>
ScenarioD == <<Point3(0, 0, 0), Point3(4, 0, 0), Point3(0, 0, 3)>>

\* C7: with 3 or more points the area shown is abs(sum) / 2 of the shoelace sum
\* of the current point list, whatever was placed before the last reset; the
\* square of scenario A shows 4.000 and the triangle of scenario D shows 6.000.
C7_AreaIsShoelaceOfCurrentList ==
  /\ Len(points) >= 3 =>
       areaDisplayText =
         <<"Polygon Area: ", (IAbs(ShoelaceSum(points, 1)) * AreaUnit) \div 2, " m2">>
  /\ points = ScenarioA => areaDisplayText = <<"Polygon Area: ", 4 * AreaUnit, " m2">>
  /\ points = ScenarioD => areaDisplayText = <<"Polygon Area: ", 6 * AreaUnit, " m2">>

\* C7 witness: the square of scenario A is placed and shows 4.000.
C7_Witness ==
  /\ points = ScenarioA
  /\ lastEvent.op = "placePoint"
  /\ areaDisplayText = <<"Polygon Area: ", 4 * AreaUnit, " m2">>

\* C9: a step that is not a reset keeps every placed point and its marker as
\* they are, and a placePoint with a target appends the position of the
\* reticle matrix of that moment and a marker with that matrix.
C9_PlacedPointsAreCopies ==
  [][lastEvent'.op \notin {"reset", "cleanup"} =>
       /\ Len(points') >= Len(points)
       /\ \A i \in 1..Len(points) : points'[i] = points[i] /\ markers'[i] = markers[i]
       /\ (lastEvent'.op = "placePoint" /\ reticleVisible) =>
            /\ points'[Len(points')] = Position(reticleMatrix)
            /\ markers'[Len(markers')] = reticleMatrix]_vars

\* C9 witness: a frame has moved the target away from the newest placed point.
C9_Witness ==
  /\ lastEvent.op = "render"
  /\ reticleVisible
  /\ Len(points) >= 2
  /\ Position(reticleMatrix) # points[Len(points)]
  /\ Position(markers[Len(points)]) = points[Len(points)]

\* C10: after each frame of a session the target is defined exactly when the
\* hit-test result list of that frame is non-empty, and it is then the pose of
\* the first result.
C10_TargetIsTopHitOfLastFrame ==
  (lastEvent.op = "render" /\ lastEvent.frame) =>
    /\ reticleVisible <=> (lastEvent.hits # <<>>)
    /\ lastEvent.hits # <<>> => reticleMatrix = lastEvent.hits[1]


\* no addition or subtraction of the loop of calculatePolygonArea is rounded
RECURSIVE LoopIsExact(_, _, _)
LoopIsExact(pts, i, area) ==
  IF i >= Len(pts) THEN TRUE
  ELSE LET j  == (i + 1) % Len(pts)
           s1 == DSum(area, DMul(pts[i + 1].x, pts[j + 1].z))
           s2 == DSum(s1, DNeg(DMul(pts[j + 1].x, pts[i + 1].z)))
           same(d) == DRound(d).hi = d.hi /\ DRound(d).lo = d.lo
       IN  same(s1) /\ same(s2) /\ LoopIsExact(pts, i + 1, s2)

\* C8 as stated: calculatePolygonArea returns the same number for a list of 3
\* or more points, for the list reversed and for the list shifted cyclically.
C8_AreaUnchangedByReorder ==
  [][areaResult # NoResult => areaResult' = areaResult]_vars

\* C8 as amended: it returns the same number for the list, the list reversed
\* and the list shifted cyclically whenever no sum of the loop is rounded, for
\* the list and for the reordered list.
C8_AreaUnchangedByReorderIfExact ==
  [][(/\ areaResult # NoResult
      /\ LoopIsExact(polygonPoints, 0, DZero)
      /\ LoopIsExact(polygonPoints', 0, DZero))
       => areaResult' = areaResult]_vars

\* C8 witness: the area of a reversed list was computed without rounding, is
\* not zero, and the shoelace sum of the reversed list is negative.
C8_Witness ==
  /\ lastEvent.op = "areaOfReversed"
  /\ LoopIsExact(polygonPoints, 0, DZero)
  /\ AreaLoop(polygonPoints, 0, DZero).neg
  /\ areaResult[1].hi + areaResult[1].lo > 0

\* the state of the engine by its point count
Stage(pts) ==
  IF Len(pts) = 0 THEN "Empty" ELSE IF Len(pts) <= 2 THEN "Open" ELSE "Measurable"

\* C11: every step leaves the point list unchanged, or is a placePoint that
\* appends exactly one point at the end and keeps the earlier points in order,
\* or is a reset (the cleanup calls it too) that empties the list; so placePoint
\* keeps the state or moves it Empty to Open to Measurable, and the state goes
\* back to Empty only by a reset.
C11_AppendOrClearOnly ==
  [][/\ \/ points' = points
        \/ /\ lastEvent'.op = "placePoint"
           /\ Len(points') = Len(points) + 1
           /\ SubSeq(points', 1, Len(points)) = points
        \/ /\ lastEvent'.op \in {"reset", "cleanup"}
           /\ points' = <<>>
     /\ lastEvent'.op = "placePoint" =>
          <<Stage(points), Stage(points')>> \in
            {<<"Empty", "Open">>, <<"Open", "Open">>, <<"Open", "Measurable">>,
             <<"Measurable", "Measurable">>, <<"Empty", "Empty">>}
     /\ (Stage(points) # "Empty" /\ Stage(points') = "Empty") =>
          lastEvent'.op \in {"reset", "cleanup"}]_vars

\* C11 witness: a placePoint has just appended a fourth point to a measurable
\* polygon.
C11_Witness ==
  /\ lastEvent.op = "placePoint"
  /\ Len(points) = 4
  /\ points[3] # points[4]
  /\ pointsCountText = 4

\* C12: the scene holds one marker per point of the list, the i-th marker at
\* the position of the i-th point; so there are as many markers as points after
\* every placePoint and none after every reset.
C12_OneMarkerPerPoint ==
  /\ Len(markers) = Len(points)
  /\ \A i \in 1..Len(points) : Position(markers[i]) = points[i]
  /\ lastEvent.op \in {"reset", "cleanup"} => markers = <<>>

\* C12 witness: three points placed away from the origin, each with its marker.
C12_Witness ==
  /\ lastEvent.op = "placePoint"
  /\ Len(points) = 3
  /\ Len(markers) = 3
  /\ \A i \in 1..3 : Position(markers[i]) # Position(IdentityMatrix)
  /\ markers[1] # markers[3]

\* C13: calculatePolygonArea returns the same number when a point of the list
\* is moved along the up axis y: lists with the same x and z in the same order
\* have the same area, whatever their y coordinates.
C13_AreaIgnoresUpAxis ==
  [][lastEvent'.op = "areaOfLifted" => areaResult' = areaResult]_vars

\* C13 witness: the area of a list whose first three points each lie at
\* another height than the point before; it is not zero.
C13_Witness ==
  /\ lastEvent.op = "areaOfLifted"
  /\ polygonPoints[1].y # polygonPoints[2].y
  /\ polygonPoints[2].y # polygonPoints[3].y
  /\ areaResult[1].hi + areaResult[1].lo > 0

\* C14: hitTestSource holds a source only of the running session: it is never
\* the source of an ended session, and it is null while no session runs, also
\* when a request resolves after the session that made it has ended.
C14_SourceOnlyOfRunningSession ==
  /\ hitTestSource # "ended"
  /\ ~session => hitTestSource = "null"

\* C15: the scene holds no line while there are fewer than 2 points, and from
\* 2 points on exactly one line, the one lineMesh refers to; no line of an
\* earlier point list stays in the scene after placePoint or reset.
C15_OneOutlineInScene ==
  /\ Len(sceneLines) <= 1
  /\ Len(points) < 2 => (sceneLines = <<>> /\ lineMesh = NullLine)
  /\ Len(points) >= 2 => (lineMesh # NullLine /\ sceneLines = <<lineMesh>>)

\* C15 witness: a third point has been placed, so the line of the first two
\* points was replaced; the scene holds the one line of four vertices.
C15_Witness ==
  /\ lastEvent.op = "placePoint"
  /\ Len(points) = 3
  /\ Len(sceneLines) = 1
  /\ Len(sceneLines[1]) = 4
  /\ sceneLines[1][3] # sceneLines[1][1]

\* C16: the running session has at most one 'end' listener and one hit-test
\* source request; a frame of a session that has none yet (its first frame,
\* also in a session started after another one ended) issues the request and
\* registers the listener, every other frame issues and registers nothing, and
\* nothing but a frame does.
C16_RequestOncePerSession ==
  [][LET frame  == lastEvent'.op = "render" /\ lastEvent'.frame
         issued == endListeners' = endListeners + 1 /\ pending' /\ hitTestSourceRequested'
     IN  /\ endListeners' <= 1
         /\ (frame /\ endListeners = 0) => issued
         /\ (frame /\ endListeners > 0) =>
              UNCHANGED <<endListeners, pending, hitTestSourceRequested>>
         /\ endListeners' > endListeners => frame]_vars

\* C16 witness: in a session started after another one ended, a frame has run
\* and the session has its one request (unresolved, as is the one of the ended
\* session) and its one listener.
C16_Witness ==
  /\ session
  /\ lastEvent.op = "render"
  /\ lastEvent.frame
  /\ endListeners = 1
  /\ hitTestSourceRequested
  /\ pending
  /\ pendingEnded

\* C17: once the cleanup has run the point list is empty, the scene holds no
\* marker and no line, the count shown is 0 and no area is shown; and a click
\* on either button changes none of this any more.
C17_CleanupEmptiesForGood ==
  [][/\ ~mounted' =>
          /\ points' = <<>>
          /\ markers' = <<>>
          /\ lineMesh' = NullLine
          /\ sceneLines' = <<>>
          /\ pointsCountText' = 0
          /\ areaDisplayText' = NoText
     /\ ~mounted => UNCHANGED <<engineVars, mounted>>]_vars

\* C17 witness: a button was clicked after the cleanup, while the reticle
\* still shows a target.
C17_Witness ==
  /\ ~mounted
  /\ lastEvent.op = "click"
  /\ reticleVisible
  /\ points = <<>>
  /\ markers = <<>>

====
